---------------------------- MODULE Spec2Model ----------------------------
(***************************************************************************)
(* The grafana-operator reconciler of monitoring-stack-operator            *)
(* (package grafana_operator): the Reconcile pipeline, its six steps, the  *)
(* result constructors, and the remote store the steps talk to.            *)
(*                                                                         *)
(* One invocation of Reconcile is ReconcileBegin, then one action per      *)
(* step the loop calls (the last one returns), then ReconcileEnd.  The     *)
(* controller runs one invocation at a time (MaxConcurrentReconciles: 1).  *)
(* Other actors (OLM, users, the namespace controller) change the store    *)
(* between invocations (the Ext actions); inside a step they show as the   *)
(* races the store API reports: AlreadyExists on a Create, Conflict on an  *)
(* Update.  Every store call can also fail with an unexpected error.       *)
(***************************************************************************)
EXTENDS Integers, Sequences, FiniteSets, TLC

(***************************************************************************)
(* Program constants (const block and literals of the controller).         *)
(***************************************************************************)
Namespace == "monitoring-stack-operator"
grafanaCSV == "grafana-operator.v4.1.0"
\* a target version other than grafanaCSV (a stale StartingCSV, another plan)
otherCSV == "grafana-operator.v4.0.0"
\* requeue delays, in seconds
ConflictRequeueSeconds == 2
ProbeRequeueSeconds == 10

(***************************************************************************)
(* Bounds of the model.                                                    *)
(***************************************************************************)
\* install plans in the namespace at a time
MaxPlans == 1

(***************************************************************************)
(* Errors of the store API.  Nil is Go's nil error.                        *)
(***************************************************************************)
Nil == "nil"
Internal == "InternalError"
IsNotFound(err) == err = "NotFound"
IsAlreadyExists(err) == err = "AlreadyExists"
IsConflict(err) == err = "Conflict"

(***************************************************************************)
(* reconcileResult and its constructors.                                   *)
(***************************************************************************)
ZeroResult == [Requeue |-> FALSE, RequeueAfter |-> 0]

ZeroReconcileResult == [Result |-> ZeroResult, err |-> Nil, stop |-> FALSE]

\* a slip: next() that stops the pipeline
next_Stops == [Result |-> ZeroResult, err |-> Nil, stop |-> TRUE]

\* a slip: end() that leaves stop false
end_DoesNotStop == [Result |-> ZeroResult, err |-> Nil, stop |-> FALSE]

end == [Result |-> ZeroResult, err |-> Nil, stop |-> TRUE]

next == [Result |-> ZeroResult, err |-> Nil, stop |-> FALSE]

\* a slip: requeue() that asks for an immediate retry
requeue_Immediate(d, err) ==
    [Result |-> [Requeue |-> TRUE, RequeueAfter |-> 0], err |-> err, stop |-> TRUE]

\* a slip: requeue() that leaves stop false
requeue_DoesNotStop(d, err) ==
    [Result |-> [Requeue |-> (d = 0), RequeueAfter |-> d], err |-> err, stop |-> FALSE]

requeue(d, err) ==
    [Result |-> [Requeue |-> (d = 0), RequeueAfter |-> d], err |-> err, stop |-> TRUE]

\* a slip: reconcileError() that drops the error
reconcileError_DropsError(err) == [Result |-> ZeroResult, err |-> Nil, stop |-> TRUE]

\* a slip: reconcileError() that leaves stop false
reconcileError_DoesNotStop(err) == [Result |-> ZeroResult, err |-> err, stop |-> FALSE]

reconcileError(err) == [Result |-> ZeroResult, err |-> err, stop |-> TRUE]

\* a slip: AlreadyExists reported as an error
creationResult_AlreadyExistsIsError(err) ==
    IF err = Nil THEN end
    ELSE reconcileError(err)

\* a slip: a successful Create lets the pipeline continue
creationResult_ContinuesAfterCreate(err) ==
    IF err = Nil THEN next
    ELSE IF IsAlreadyExists(err) THEN next
    ELSE reconcileError(err)

creationResult(err) ==
    IF err = Nil THEN end
    ELSE IF IsAlreadyExists(err) THEN next
    ELSE reconcileError(err)

\* a slip: a version conflict reported as an error
updationResult_ConflictIsError(err) ==
    IF err = Nil THEN next
    ELSE reconcileError(err)

\* a slip: a successful Update halts the pipeline
updationResult_StopsAfterUpdate(err) ==
    IF err = Nil THEN end
    ELSE IF IsConflict(err) THEN requeue(ConflictRequeueSeconds, Nil)
    ELSE reconcileError(err)

\* a slip: an unexpected error of the Update lets the pipeline continue
updationResult_ErrorContinues(err) ==
    IF err = Nil THEN next
    ELSE IF IsConflict(err) THEN requeue(ConflictRequeueSeconds, Nil)
    ELSE [Result |-> ZeroResult, err |-> err, stop |-> FALSE]

updationResult(err) ==
    IF err = Nil THEN next
    ELSE IF IsConflict(err) THEN requeue(ConflictRequeueSeconds, Nil)
    ELSE reconcileError(err)

\* the closure `result` of Reconcile: what the invocation hands back
result(r) == [Result |-> r.Result, err |-> r.err]

(***************************************************************************)
(* Desired objects.                                                        *)
(***************************************************************************)
NoObject == [Absent |-> TRUE]

NewNamespace == [Name |-> Namespace, ResourceVersion |-> ""]

NewOperatorGroup ==
    [Spec |-> [TargetNamespaces |-> <<Namespace>>], ResourceVersion |-> ""]

NewSubscription ==
    [Spec |-> [StartingCSV |-> grafanaCSV],
     Status |-> [InstalledCSV |-> ""],
     ResourceVersion |-> ""]

newGrafana == [Spec |-> [Replicas |-> 1], ResourceVersion |-> ""]

\* a slip: a comparison that never finds the specs equal
DeepEqual_NeverEqual(a, b) == FALSE

\* reflect.DeepEqual on two specs
DeepEqual(a, b) == a = b

\* what the store holds: the written object with a resource version set
Stored(obj) == [obj EXCEPT !.ResourceVersion = "set"]

\* specs another actor may leave in the store
OperatorGroupSpecs == {NewOperatorGroup.Spec, [TargetNamespaces |-> <<"default">>]}
GrafanaSpecs == {newGrafana.Spec, [Replicas |-> 2]}
CSVNames == {grafanaCSV, otherCSV}
\* ClusterServiceVersionNames of the install plans other actors create
PlanTargets == {<< >>, <<grafanaCSV>>, <<otherCSV>>, <<otherCSV, grafanaCSV>>}

(***************************************************************************)
(* State.                                                                  *)
(***************************************************************************)
VARIABLES
    namespacePhase,          \* "absent", or Status.Phase of the Namespace
    operatorGroup,           \* NoObject or the stored OperatorGroup
    subscription,            \* NoObject or the stored Subscription
    csvs,                    \* names of the ClusterServiceVersions in the namespace
    installPlans,            \* the InstallPlans in the namespace, in List order
    grafana,                 \* NoObject or the stored Grafana
    dataSourceCRD,           \* whether the GrafanaDataSource kind is served
    grafanaWatchEstablished, \* reconciler.grafanaWatchEstablished
    grafanaWatches,          \* Grafana watches registered on the controller
    pc,                      \* position of the running invocation
    ran,                     \* steps the running invocation has called
    results,                 \* the reconcileResult of each step that returned
    calls,                   \* store calls the running invocation has issued
    ret,                     \* what Reconcile returned
    converge                 \* per get/create-or-update step: the writes of its
                             \* latest runs with no change by another actor between

\* The ui-plugin package (components.go): the ConfigMap of a plugin and the
\* Deployment built from it.
VARIABLES
    configMap,               \* info.ConfigMap: NoObject (nil) or [Data |-> ...]
    deployment,              \* NoObject or the Deployment newDeployment built last
    ranged,                  \* the keys in the order the last `range cm.Data` gave
    reranged,                \* an earlier build from this ConfigMap ranged otherwise
    digests,                 \* config-hash annotations built from this ConfigMap
    previous                 \* NoObject or the change of one value that led to
                             \* this ConfigMap, with the digests built before it

store == <<namespacePhase, operatorGroup, subscription, csvs, installPlans,
           grafana, dataSourceCRD>>
process == <<grafanaWatchEstablished, grafanaWatches>>
invocation == <<pc, ran, results, calls, ret>>
uiplugin == <<configMap, deployment, ranged, reranged, digests, previous>>
vars == <<store, process, invocation, converge, uiplugin>>

\* the get/create-or-update steps whose successive runs are followed
ConvergeSteps == {"reconcileNamespace", "reconcileOperatorGroup", "reconcileGrafana"}

reconcilers ==
    <<"reconcileNamespace", "reconcileOperatorGroup", "reconcileSubscription",
      "approveInstallPlan", "setGrafanaWatch", "reconcileGrafana">>


TypeOK ==
    /\ namespacePhase \in {"absent", "Active", "Terminating"}
    /\ dataSourceCRD \in BOOLEAN
    /\ grafanaWatchEstablished \in BOOLEAN
    /\ grafanaWatches \in Nat
    /\ Len(installPlans) <= MaxPlans
    /\ csvs \subseteq CSVNames
    /\ pc \in {"idle", "returned", "panicked"}
                \cup {reconcilers[i] : i \in 1..Len(reconcilers)}

\* no plugin is being built
NoPlugin ==
    /\ configMap = NoObject
    /\ deployment = NoObject
    /\ ranged = << >>
    /\ reranged = FALSE
    /\ digests = {}
    /\ previous = NoObject

\* the reconciler RegisterWithManager builds, and an empty store
NewReconciler ==
    /\ namespacePhase = "absent"
    /\ operatorGroup = NoObject
    /\ subscription = NoObject
    /\ csvs = {}
    /\ installPlans = << >>
    /\ grafana = NoObject
    /\ dataSourceCRD = FALSE
    /\ grafanaWatchEstablished = FALSE
    /\ grafanaWatches = 0
    /\ pc = "idle"
    /\ ran = << >>
    /\ results = << >>
    /\ calls = << >>
    /\ ret = result(ZeroReconcileResult)
    /\ converge = [k \in ConvergeSteps |-> << >>]

Init == NewReconciler /\ NoPlugin

(***************************************************************************)
(* The store API as the steps see it.  A call is logged with its outcome   *)
(* and with what the store held when the step ran.                         *)
(***************************************************************************)
IsEligible(plan) ==
    /\ \E i \in 1..Len(plan.Spec.ClusterServiceVersionNames) :
           plan.Spec.ClusterServiceVersionNames[i] = grafanaCSV
    /\ Len(plan.Status.BundleLookups) # 0

ApprovedPlanExists(plans) ==
    \E i \in 1..Len(plans) : IsEligible(plans[i]) /\ plans[i].Spec.Approved

Call(op, kind, obj, err) ==
    [op |-> op, kind |-> kind, obj |-> obj, err |-> err,
     namespaceExists |-> namespacePhase # "absent",
     approvedPlan |-> ApprovedPlanExists(installPlans)]

\* errors a read can return besides NotFound
ReadErrors == {Nil, Internal}

\* a write into a namespace that is absent or being deleted is refused
NamespaceRefusal == IF namespacePhase = "absent" THEN "NotFound" ELSE "Forbidden"

\* Create(obj) where the store holds cur; raced: what another actor may
\* have created in the meantime
CreateOutcomes(cur, obj, raced) ==
    IF namespacePhase # "Active"
    THEN {[err |-> NamespaceRefusal, after |-> cur]}
    ELSE IF obj.ResourceVersion # ""
    THEN {[err |-> "BadRequest", after |-> cur]}
    ELSE IF cur # NoObject
    THEN {[err |-> "AlreadyExists", after |-> cur], [err |-> Internal, after |-> cur]}
    ELSE {[err |-> Nil, after |-> Stored(obj)], [err |-> Internal, after |-> cur]}
         \cup {[err |-> "AlreadyExists", after |-> r] : r \in raced}

\* Update(obj) of the object read as cur; raced: what another actor may have
\* written since the read
UpdateOutcomes(cur, obj, raced) ==
    {[err |-> Nil, after |-> Stored(obj)], [err |-> Internal, after |-> cur]}
    \cup {[err |-> "Conflict", after |-> r] : r \in raced}

(***************************************************************************)
(* Reconcile: the loop over the steps.                                     *)
(***************************************************************************)
IndexOf(step) == CHOOSE i \in 1..Len(reconcilers) : reconcilers[i] = step

\* a slip: a loop that does not look at res.stop
ReconcileLoop_IgnoresStop(step, r) ==
    IF IndexOf(step) = Len(reconcilers) THEN "returned"
    ELSE reconcilers[IndexOf(step) + 1]

\* for _, reconciler := range reconcilers { if res := reconciler(ctx); res.stop {
\*     return result(res) } }: where the invocation stands after step returned r
ReconcileLoop(step, r) ==
    IF r.stop THEN "returned"
    ELSE IF IndexOf(step) = Len(reconcilers) THEN "returned"
    ELSE reconcilers[IndexOf(step) + 1]

\* what Reconcile returns when it returns after a step that returned r
ReconcileReturn(r) == result(IF r.stop THEN r ELSE ZeroReconcileResult)

IsWrite(call) == call.op \in {"Create", "Update", "Delete"}

WritesOf(cs) == {i \in 1..Len(cs) : IsWrite(cs[i])}

\* another actor wrote between the step's read and its write
Raced(cs) == \E i \in 1..Len(cs) : cs[i].err \in {"AlreadyExists", "Conflict"}

\* the record of successive undisturbed runs of a step, after a run that issued
\* the calls cs: it starts at a run whose writes the store accepted
Followed(before, cs) ==
    LET n == Cardinality(WritesOf(cs))
        accepted == n > 0 /\ \A i \in WritesOf(cs) : cs[i].err = Nil
    IN IF Len(before) = 1 THEN Append(before, n)
       ELSE IF accepted THEN <<n>>
       ELSE << >>

\* the step returned r after issuing the calls cs
Returned(step, r, cs) ==
    /\ converge' = IF Raced(cs) THEN [k \in ConvergeSteps |-> << >>]
                   ELSE [k \in ConvergeSteps |->
                           IF k = step THEN Followed(converge[k], cs)
                           ELSE converge[k]]
    /\ ran' = Append(ran, step)
    /\ results' = Append(results, r)
    /\ calls' = calls \o cs
    /\ pc' = ReconcileLoop(step, r)
    /\ ret' = IF ReconcileLoop(step, r) = "returned" THEN ReconcileReturn(r) ELSE ret
    /\ UNCHANGED uiplugin

\* the step panicked after issuing the calls cs: the process dies
Panicked(step, cs) ==
    /\ ran' = Append(ran, step)
    /\ results' = results
    /\ calls' = calls \o cs
    /\ pc' = "panicked"
    /\ ret' = ret
    /\ UNCHANGED <<converge, uiplugin>>

ReconcileBegin ==
    /\ pc = "idle"
    /\ pc' = reconcilers[1]
    /\ ran' = << >>
    /\ results' = << >>
    /\ calls' = << >>
    /\ ret' = ret
    /\ UNCHANGED <<store, process, converge, uiplugin>>

\* the worker is free again; the next event starts the pipeline from the top
ReconcileEnd ==
    /\ pc = "returned"
    /\ pc' = "idle"
    /\ ran' = << >>
    /\ results' = << >>
    /\ calls' = << >>
    /\ ret' = result(ZeroReconcileResult)
    /\ UNCHANGED <<store, process, converge, uiplugin>>

\* a slip: a namespace step that updates the namespace it finds
reconcileNamespace_UpdatesFound ==
    /\ pc = "reconcileNamespace"
    /\ UNCHANGED <<operatorGroup, subscription, csvs, installPlans, grafana,
                   dataSourceCRD, process>>
    /\ \E g \in ReadErrors :
         IF g # Nil
         THEN /\ Returned("reconcileNamespace", reconcileError(g),
                          <<Call("Get", "Namespace", NoObject, g)>>)
              /\ UNCHANGED namespacePhase
         ELSE IF namespacePhase = "absent"
         THEN \E c \in {Nil, "AlreadyExists", Internal} :
                /\ namespacePhase' = IF c = Internal THEN "absent" ELSE "Active"
                /\ Returned("reconcileNamespace", creationResult(c),
                            <<Call("Get", "Namespace", NoObject, "NotFound"),
                              Call("Create", "Namespace", NewNamespace, c)>>)
         ELSE /\ UNCHANGED namespacePhase
              /\ Returned("reconcileNamespace",
                          IF namespacePhase # "Active" THEN end ELSE next,
                          <<Call("Get", "Namespace", NoObject, Nil),
                            Call("Update", "Namespace", NewNamespace, Nil)>>)

\* AlreadyExists on the Create: another actor created the namespace after the
\* Get; a new namespace is Active
reconcileNamespace ==
    /\ pc = "reconcileNamespace"
    /\ UNCHANGED <<operatorGroup, subscription, csvs, installPlans, grafana,
                   dataSourceCRD, process>>
    /\ \E g \in ReadErrors :
         IF g # Nil
         THEN /\ Returned("reconcileNamespace", reconcileError(g),
                          <<Call("Get", "Namespace", NoObject, g)>>)
              /\ UNCHANGED namespacePhase
         ELSE IF namespacePhase = "absent"
         THEN \E c \in {Nil, "AlreadyExists", Internal} :
                /\ namespacePhase' = IF c = Internal THEN "absent" ELSE "Active"
                /\ Returned("reconcileNamespace", creationResult(c),
                            <<Call("Get", "Namespace", NoObject, "NotFound"),
                              Call("Create", "Namespace", NewNamespace, c)>>)
         ELSE /\ UNCHANGED namespacePhase
              /\ Returned("reconcileNamespace",
                          IF namespacePhase # "Active" THEN end ELSE next,
                          <<Call("Get", "Namespace", NoObject, Nil)>>)

reconcileOperatorGroup ==
    /\ pc = "reconcileOperatorGroup"
    /\ UNCHANGED <<namespacePhase, subscription, csvs, installPlans, grafana,
                   dataSourceCRD, process>>
    /\ \E g \in ReadErrors :
         IF g # Nil
         THEN /\ Returned("reconcileOperatorGroup", reconcileError(g),
                          <<Call("Get", "OperatorGroup", NoObject, g)>>)
              /\ UNCHANGED operatorGroup
         ELSE IF operatorGroup = NoObject
         THEN \E o \in CreateOutcomes(operatorGroup, NewOperatorGroup,
                         {Stored([NewOperatorGroup EXCEPT !.Spec = s]) :
                            s \in OperatorGroupSpecs}) :
                /\ operatorGroup' = o.after
                /\ Returned("reconcileOperatorGroup", creationResult(o.err),
                            <<Call("Get", "OperatorGroup", NoObject, "NotFound"),
                              Call("Create", "OperatorGroup", NewOperatorGroup, o.err)>>)
         ELSE IF ~DeepEqual(operatorGroup.Spec, NewOperatorGroup.Spec)
         THEN LET sent == [operatorGroup EXCEPT !.Spec = NewOperatorGroup.Spec]
              IN \E o \in UpdateOutcomes(operatorGroup, sent,
                            {[operatorGroup EXCEPT !.Spec = s] :
                               s \in OperatorGroupSpecs}) :
                   /\ operatorGroup' = o.after
                   /\ Returned("reconcileOperatorGroup", updationResult(o.err),
                               <<Call("Get", "OperatorGroup", NoObject, Nil),
                                 Call("Update", "OperatorGroup", sent, o.err)>>)
         ELSE /\ UNCHANGED operatorGroup
              /\ Returned("reconcileOperatorGroup", next,
                          <<Call("Get", "OperatorGroup", NoObject, Nil)>>)

\* Delete of the ClusterServiceVersion called name (an empty or unknown name
\* is NotFound)
DeleteCSVOutcomes(name) ==
    IF name \in csvs
    THEN {[err |-> Nil, after |-> csvs \ {name}], [err |-> Internal, after |-> csvs]}
    ELSE {[err |-> "NotFound", after |-> csvs]}

\* a slip: the Create is issued although the Delete of the
\* ClusterServiceVersion failed
reconcileSubscription_CreatesAfterFailedDelete ==
    /\ pc = "reconcileSubscription"
    /\ UNCHANGED <<namespacePhase, operatorGroup, installPlans, grafana,
                   dataSourceCRD, process>>
    /\ \E g \in ReadErrors :
         IF g # Nil
         THEN /\ Returned("reconcileSubscription", reconcileError(g),
                          <<Call("Get", "Subscription", NoObject, g)>>)
              /\ UNCHANGED <<subscription, csvs>>
         ELSE IF subscription = NoObject
         THEN \E o \in CreateOutcomes(subscription, NewSubscription,
                                      {Stored(NewSubscription)}) :
                /\ subscription' = o.after
                /\ UNCHANGED csvs
                /\ Returned("reconcileSubscription", creationResult(o.err),
                            <<Call("Get", "Subscription", NoObject, "NotFound"),
                              Call("Create", "Subscription", NewSubscription, o.err)>>)
         ELSE IF subscription.Spec.StartingCSV = NewSubscription.Spec.StartingCSV
         THEN /\ UNCHANGED <<subscription, csvs>>
              /\ Returned("reconcileSubscription", next,
                          <<Call("Get", "Subscription", NoObject, Nil)>>)
         ELSE LET read == subscription
                  got == Call("Get", "Subscription", NoObject, Nil)
                  csv == [Name |-> read.Status.InstalledCSV]
              IN \E d \in {Nil, Internal} :
                   IF d # Nil
                   THEN /\ UNCHANGED <<subscription, csvs>>
                        /\ Returned("reconcileSubscription", reconcileError(d),
                                    <<got, Call("Delete", "Subscription", read, d)>>)
                   ELSE \E dc \in DeleteCSVOutcomes(csv.Name) :
                          /\ csvs' = dc.after
                          /\ \E o \in CreateOutcomes(NoObject, read, {}) :
                               /\ subscription' = o.after
                               /\ Returned("reconcileSubscription",
                                    creationResult(o.err),
                                    <<got, Call("Delete", "Subscription", read, Nil),
                                      Call("Delete", "ClusterServiceVersion", csv, dc.err),
                                      Call("Create", "Subscription", read, o.err)>>)

\* On a stale StartingCSV the step deletes the subscription and its installed
\* ClusterServiceVersion, then calls Create with the object it read
\* (&subscription), which still carries its resource version and StartingCSV.
reconcileSubscription ==
    /\ pc = "reconcileSubscription"
    /\ UNCHANGED <<namespacePhase, operatorGroup, installPlans, grafana,
                   dataSourceCRD, process>>
    /\ \E g \in ReadErrors :
         IF g # Nil
         THEN /\ Returned("reconcileSubscription", reconcileError(g),
                          <<Call("Get", "Subscription", NoObject, g)>>)
              /\ UNCHANGED <<subscription, csvs>>
         ELSE IF subscription = NoObject
         THEN \E o \in CreateOutcomes(subscription, NewSubscription,
                                      {Stored(NewSubscription)}) :
                /\ subscription' = o.after
                /\ UNCHANGED csvs
                /\ Returned("reconcileSubscription", creationResult(o.err),
                            <<Call("Get", "Subscription", NoObject, "NotFound"),
                              Call("Create", "Subscription", NewSubscription, o.err)>>)
         ELSE IF subscription.Spec.StartingCSV = NewSubscription.Spec.StartingCSV
         THEN /\ UNCHANGED <<subscription, csvs>>
              /\ Returned("reconcileSubscription", next,
                          <<Call("Get", "Subscription", NoObject, Nil)>>)
         ELSE LET read == subscription
                  got == Call("Get", "Subscription", NoObject, Nil)
                  csv == [Name |-> read.Status.InstalledCSV]
              IN \E d \in {Nil, Internal} :
                   IF d # Nil
                   THEN /\ UNCHANGED <<subscription, csvs>>
                        /\ Returned("reconcileSubscription", reconcileError(d),
                                    <<got, Call("Delete", "Subscription", read, d)>>)
                   ELSE \E dc \in DeleteCSVOutcomes(csv.Name) :
                          /\ csvs' = dc.after
                          /\ IF dc.err # Nil
                             THEN /\ subscription' = NoObject
                                  /\ Returned("reconcileSubscription",
                                       reconcileError(dc.err),
                                       <<got, Call("Delete", "Subscription", read, Nil),
                                         Call("Delete", "ClusterServiceVersion", csv, dc.err)>>)
                             ELSE \E o \in CreateOutcomes(NoObject, read, {}) :
                                    /\ subscription' = o.after
                                    /\ Returned("reconcileSubscription",
                                         creationResult(o.err),
                                         <<got, Call("Delete", "Subscription", read, Nil),
                                           Call("Delete", "ClusterServiceVersion", csv, Nil),
                                           Call("Create", "Subscription", read, o.err)>>)

(***************************************************************************)
(* approveInstallPlan: the scan of the listed plans from index i on.       *)
(* "panic" is the index-out-of-range of ClusterServiceVersionNames[0].     *)
(***************************************************************************)
\* a slip: a scan that does not stop at an approved plan
RECURSIVE ScanInstallPlans_IgnoresApproved(_, _)
ScanInstallPlans_IgnoresApproved(items, i) ==
    IF i > Len(items) THEN [found |-> "nil", index |-> 0]
    ELSE IF Len(items[i].Spec.ClusterServiceVersionNames) = 0
    THEN [found |-> "panic", index |-> i]
    ELSE LET csv == items[i].Spec.ClusterServiceVersionNames[1]
         IN IF csv # grafanaCSV \/ Len(items[i].Status.BundleLookups) = 0
            THEN ScanInstallPlans_IgnoresApproved(items, i + 1)
            ELSE [found |-> "approvePlan", index |-> i]

RECURSIVE ScanInstallPlans(_, _)
ScanInstallPlans(items, i) ==
    IF i > Len(items) THEN [found |-> "nil", index |-> 0]
    ELSE IF Len(items[i].Spec.ClusterServiceVersionNames) = 0
    THEN [found |-> "panic", index |-> i]
    ELSE LET csv == items[i].Spec.ClusterServiceVersionNames[1]
         IN IF csv # grafanaCSV \/ Len(items[i].Status.BundleLookups) = 0
            THEN ScanInstallPlans(items, i + 1)
            ELSE IF items[i].Spec.Approved
            THEN [found |-> "approved", index |-> i]
            ELSE [found |-> "approvePlan", index |-> i]

approveInstallPlan ==
    /\ pc = "approveInstallPlan"
    /\ UNCHANGED <<namespacePhase, operatorGroup, subscription, csvs, grafana,
                   dataSourceCRD, process>>
    /\ \E g \in ReadErrors :
         LET listed == Call("List", "InstallPlan",
                            IF g = Nil THEN [Items |-> installPlans] ELSE NoObject, g)
             scan == ScanInstallPlans(installPlans, 1)
         IN IF g # Nil
            THEN /\ Returned("approveInstallPlan", reconcileError(g), <<listed>>)
                 /\ UNCHANGED installPlans
            ELSE IF Len(installPlans) = 0
            THEN /\ Returned("approveInstallPlan", end, <<listed>>)
                 /\ UNCHANGED installPlans
            ELSE IF scan.found = "panic"
            THEN /\ Panicked("approveInstallPlan", <<listed>>)
                 /\ UNCHANGED installPlans
            ELSE IF scan.found = "approved"
            THEN /\ Returned("approveInstallPlan", next, <<listed>>)
                 /\ UNCHANGED installPlans
            ELSE IF scan.found = "nil"
            THEN /\ Returned("approveInstallPlan", end, <<listed>>)
                 /\ UNCHANGED installPlans
            ELSE LET read == installPlans[scan.index]
                     sent == [read EXCEPT !.Spec.Approved = TRUE]
                 IN \E o \in UpdateOutcomes(read, sent, {read, sent}) :
                      /\ installPlans' = [installPlans EXCEPT ![scan.index] = o.after]
                      /\ Returned("approveInstallPlan", updationResult(o.err),
                           <<listed,
                             Call("Update", "InstallPlan",
                                  [index |-> scan.index, plan |-> sent], o.err)>>)

\* a slip: setGrafanaWatch without the check of grafanaWatchEstablished
setGrafanaWatch_IgnoresFlag ==
    /\ pc = "setGrafanaWatch"
    /\ UNCHANGED store
    /\ \E p \in (IF dataSourceCRD THEN {Nil, Internal} ELSE {"NoKindMatch"}) :
         LET probe == Call("List", "GrafanaDataSource", NoObject, p)
         IN IF p # Nil
            THEN /\ Returned("setGrafanaWatch",
                             requeue(ProbeRequeueSeconds, Nil), <<probe>>)
                 /\ UNCHANGED process
            ELSE \E w \in {Nil, Internal} :
                   LET watch == Call("Watch", "Grafana", NoObject, w)
                   IN IF w # Nil
                      THEN /\ Returned("setGrafanaWatch", reconcileError(w),
                                       <<probe, watch>>)
                           /\ UNCHANGED process
                      ELSE /\ grafanaWatches' = grafanaWatches + 1
                           /\ grafanaWatchEstablished' = TRUE
                           /\ Returned("setGrafanaWatch", next, <<probe, watch>>)

setGrafanaWatch ==
    /\ pc = "setGrafanaWatch"
    /\ UNCHANGED store
    /\ IF grafanaWatchEstablished
       THEN /\ Returned("setGrafanaWatch", next, << >>)
            /\ UNCHANGED process
       ELSE \E p \in (IF dataSourceCRD THEN {Nil, Internal} ELSE {"NoKindMatch"}) :
              LET probe == Call("List", "GrafanaDataSource", NoObject, p)
              IN IF p # Nil
                 THEN /\ Returned("setGrafanaWatch",
                                  requeue(ProbeRequeueSeconds, Nil), <<probe>>)
                      /\ UNCHANGED process
                 ELSE \E w \in {Nil, Internal} :
                        LET watch == Call("Watch", "Grafana", NoObject, w)
                        IN IF w # Nil
                           THEN /\ Returned("setGrafanaWatch", reconcileError(w),
                                            <<probe, watch>>)
                                /\ UNCHANGED process
                           ELSE /\ grafanaWatches' = grafanaWatches + 1
                                /\ grafanaWatchEstablished' = TRUE
                                /\ Returned("setGrafanaWatch", next, <<probe, watch>>)

\* a slip: on a spec difference the desired object is sent, not the one read
reconcileGrafana_SendsDesired ==
    /\ pc = "reconcileGrafana"
    /\ UNCHANGED <<namespacePhase, operatorGroup, subscription, csvs, installPlans,
                   dataSourceCRD, process>>
    /\ \E g \in ReadErrors :
         IF g # Nil
         THEN /\ Returned("reconcileGrafana", reconcileError(g),
                          <<Call("Get", "Grafana", NoObject, g)>>)
              /\ UNCHANGED grafana
         ELSE IF grafana = NoObject
         THEN \E o \in CreateOutcomes(grafana, newGrafana,
                         {Stored([newGrafana EXCEPT !.Spec = s]) : s \in GrafanaSpecs}) :
                /\ grafana' = o.after
                /\ Returned("reconcileGrafana", creationResult(o.err),
                            <<Call("Get", "Grafana", NoObject, "NotFound"),
                              Call("Create", "Grafana", newGrafana, o.err)>>)
         ELSE IF ~DeepEqual(newGrafana.Spec, grafana.Spec)
         THEN LET sent == newGrafana
              IN \E o \in UpdateOutcomes(grafana, sent,
                            {[grafana EXCEPT !.Spec = s] : s \in GrafanaSpecs}) :
                   /\ grafana' = o.after
                   /\ Returned("reconcileGrafana", updationResult(o.err),
                               <<Call("Get", "Grafana", NoObject, Nil),
                                 Call("Update", "Grafana", sent, o.err)>>)
         ELSE /\ UNCHANGED grafana
              /\ Returned("reconcileGrafana", next,
                          <<Call("Get", "Grafana", NoObject, Nil)>>)

reconcileGrafana ==
    /\ pc = "reconcileGrafana"
    /\ UNCHANGED <<namespacePhase, operatorGroup, subscription, csvs, installPlans,
                   dataSourceCRD, process>>
    /\ \E g \in ReadErrors :
         IF g # Nil
         THEN /\ Returned("reconcileGrafana", reconcileError(g),
                          <<Call("Get", "Grafana", NoObject, g)>>)
              /\ UNCHANGED grafana
         ELSE IF grafana = NoObject
         THEN \E o \in CreateOutcomes(grafana, newGrafana,
                         {Stored([newGrafana EXCEPT !.Spec = s]) : s \in GrafanaSpecs}) :
                /\ grafana' = o.after
                /\ Returned("reconcileGrafana", creationResult(o.err),
                            <<Call("Get", "Grafana", NoObject, "NotFound"),
                              Call("Create", "Grafana", newGrafana, o.err)>>)
         ELSE IF ~DeepEqual(newGrafana.Spec, grafana.Spec)
         THEN LET sent == [grafana EXCEPT !.Spec = newGrafana.Spec]
              IN \E o \in UpdateOutcomes(grafana, sent,
                            {[grafana EXCEPT !.Spec = s] : s \in GrafanaSpecs}) :
                   /\ grafana' = o.after
                   /\ Returned("reconcileGrafana", updationResult(o.err),
                               <<Call("Get", "Grafana", NoObject, Nil),
                                 Call("Update", "Grafana", sent, o.err)>>)
         ELSE /\ UNCHANGED grafana
              /\ Returned("reconcileGrafana", next,
                          <<Call("Get", "Grafana", NoObject, Nil)>>)

(***************************************************************************)
(* The process: a panic in Reconcile kills it (controller-runtime v0.9.2   *)
(* does not recover panics), and RegisterWithManager builds a fresh        *)
(* reconciler and controller when it starts again.                         *)
(***************************************************************************)
\* (at idle a restart shows only when the flag was set)
RegisterWithManager ==
    /\ pc \in {"idle", "panicked"}
    /\ pc = "idle" => grafanaWatchEstablished
    /\ grafanaWatchEstablished' = FALSE
    /\ grafanaWatches' = 0
    /\ pc' = "idle"
    /\ ran' = << >>
    /\ results' = << >>
    /\ calls' = << >>
    /\ ret' = result(ZeroReconcileResult)
    /\ UNCHANGED <<store, converge, uiplugin>>

(***************************************************************************)
(* The other actors, between invocations.                                  *)
(***************************************************************************)
Quiet ==
    /\ pc = "idle"
    /\ converge' = [k \in ConvergeSteps |-> << >>]
    /\ UNCHANGED <<process, invocation, uiplugin>>

ExtCreateNamespace ==
    /\ Quiet
    /\ namespacePhase = "absent"
    /\ namespacePhase' = "Active"
    /\ UNCHANGED <<operatorGroup, subscription, csvs, installPlans, grafana,
                   dataSourceCRD>>

ExtTerminateNamespace ==
    /\ Quiet
    /\ namespacePhase = "Active"
    /\ namespacePhase' = "Terminating"
    /\ UNCHANGED <<operatorGroup, subscription, csvs, installPlans, grafana,
                   dataSourceCRD>>

\* the namespace controller removes the namespace with all it holds
ExtRemoveNamespace ==
    /\ Quiet
    /\ namespacePhase = "Terminating"
    /\ namespacePhase' = "absent"
    /\ operatorGroup' = NoObject
    /\ subscription' = NoObject
    /\ csvs' = {}
    /\ installPlans' = << >>
    /\ grafana' = NoObject
    /\ UNCHANGED dataSourceCRD

ExtOperatorGroup ==
    /\ Quiet
    /\ namespacePhase = "Active"
    /\ \E o \in {NoObject} \cup {Stored([NewOperatorGroup EXCEPT !.Spec = s]) :
                                   s \in OperatorGroupSpecs} :
         /\ o # operatorGroup
         /\ operatorGroup' = o
    /\ UNCHANGED <<namespacePhase, subscription, csvs, installPlans, grafana,
                   dataSourceCRD>>

ExtGrafana ==
    /\ Quiet
    /\ namespacePhase = "Active"
    /\ \E o \in {NoObject} \cup {Stored([newGrafana EXCEPT !.Spec = s]) :
                                   s \in GrafanaSpecs} :
         /\ o # grafana
         /\ grafana' = o
    /\ UNCHANGED <<namespacePhase, operatorGroup, subscription, csvs, installPlans,
                   dataSourceCRD>>

\* a subscription left by an earlier release (a stale StartingCSV), or removed
ExtSubscription ==
    /\ Quiet
    /\ namespacePhase = "Active"
    /\ \E o \in {NoObject} \cup {Stored([NewSubscription EXCEPT !.Spec.StartingCSV = c]) :
                                   c \in CSVNames} :
         /\ (o = NoObject) # (subscription = NoObject)
         /\ subscription' = o
    /\ UNCHANGED <<namespacePhase, operatorGroup, csvs, installPlans, grafana,
                   dataSourceCRD>>

\* OLM installs the version the subscription asks for
ExtInstallCSV ==
    /\ Quiet
    /\ namespacePhase = "Active"
    /\ subscription # NoObject
    /\ subscription.Status.InstalledCSV = ""
    /\ subscription' = [subscription EXCEPT
                          !.Status.InstalledCSV = subscription.Spec.StartingCSV]
    /\ csvs' = csvs \cup {subscription.Spec.StartingCSV}
    /\ UNCHANGED <<namespacePhase, operatorGroup, installPlans, grafana,
                   dataSourceCRD>>

ExtDeleteCSV ==
    /\ Quiet
    /\ \E c \in csvs : csvs' = csvs \ {c}
    /\ UNCHANGED <<namespacePhase, operatorGroup, subscription, installPlans, grafana,
                   dataSourceCRD>>

NewInstallPlan(names) ==
    Stored([Spec |-> [ClusterServiceVersionNames |-> names, Approved |-> FALSE],
            Status |-> [BundleLookups |-> << >>],
            ResourceVersion |-> ""])

ExtAddInstallPlan ==
    /\ Quiet
    /\ namespacePhase = "Active"
    /\ Len(installPlans) < MaxPlans
    /\ \E names \in PlanTargets :
         installPlans' = Append(installPlans, NewInstallPlan(names))
    /\ UNCHANGED <<namespacePhase, operatorGroup, subscription, csvs, grafana,
                   dataSourceCRD>>

\* OLM fills in the bundle lookups of a plan
ExtInitInstallPlan ==
    /\ Quiet
    /\ \E i \in 1..Len(installPlans) :
         /\ installPlans[i].Status.BundleLookups = << >>
         /\ installPlans' =
              [installPlans EXCEPT ![i].Status.BundleLookups = <<"bundle">>]
    /\ UNCHANGED <<namespacePhase, operatorGroup, subscription, csvs, grafana,
                   dataSourceCRD>>

\* somebody else approves a plan
ExtApproveInstallPlan ==
    /\ Quiet
    /\ \E i \in 1..Len(installPlans) :
         /\ ~installPlans[i].Spec.Approved
         /\ installPlans' = [installPlans EXCEPT ![i].Spec.Approved = TRUE]
    /\ UNCHANGED <<namespacePhase, operatorGroup, subscription, csvs, grafana,
                   dataSourceCRD>>

ExtDeleteInstallPlan ==
    /\ Quiet
    /\ \E i \in 1..Len(installPlans) :
         installPlans' = [j \in 1..(Len(installPlans) - 1) |->
                            IF j < i THEN installPlans[j] ELSE installPlans[j + 1]]
    /\ UNCHANGED <<namespacePhase, operatorGroup, subscription, csvs, grafana,
                   dataSourceCRD>>

\* the GrafanaDataSource CRD is installed or removed
ExtDataSourceCRD ==
    /\ Quiet
    /\ dataSourceCRD' = ~dataSourceCRD
    /\ UNCHANGED <<namespacePhase, operatorGroup, subscription, csvs, installPlans,
                   grafana>>

Step ==
    \/ reconcileNamespace
    \/ reconcileOperatorGroup
    \/ reconcileSubscription
    \/ approveInstallPlan
    \/ setGrafanaWatch
    \/ reconcileGrafana

Reconcile == ReconcileBegin \/ Step \/ ReconcileEnd

Ext ==
    \/ ExtCreateNamespace
    \/ ExtTerminateNamespace
    \/ ExtRemoveNamespace
    \/ ExtOperatorGroup
    \/ ExtGrafana
    \/ ExtSubscription
    \/ ExtInstallCSV
    \/ ExtDeleteCSV
    \/ ExtAddInstallPlan
    \/ ExtInitInstallPlan
    \/ ExtApproveInstallPlan
    \/ ExtDeleteInstallPlan
    \/ ExtDataSourceCRD

Next == Reconcile \/ RegisterWithManager \/ Ext

Spec == Init /\ [][Next]_vars

(***************************************************************************)
(* The level-triggered loop on its own.  The store starts in any state     *)
(* that earlier invocations and other actors can have left; from then on   *)
(* store calls do not fail and no other actor writes what the reconciler   *)
(* manages.  The ticker and the watches of RegisterWithManager start an    *)
(* invocation whenever the worker is free, a process that died is started  *)
(* again, OLM creates and initialises an install plan for grafanaCSV, and  *)
(* the GrafanaDataSource kind comes to be served.                          *)
(***************************************************************************)
\* the install plans another actor can have left
AnyInstallPlan ==
    {[NewInstallPlan(names) EXCEPT !.Spec.Approved = a, !.Status.BundleLookups = b] :
        names \in PlanTargets, a \in BOOLEAN, b \in {<< >>, <<"bundle">>}}

AnyInstallPlans == UNION {[1..n -> AnyInstallPlan] : n \in 0..MaxPlans}

AnySubscription ==
    UNION {{Stored([NewSubscription EXCEPT
                      !.Spec.StartingCSV = c, !.Status.InstalledCSV = i]) :
              i \in {"", c}} : c \in CSVNames}

LiveInit ==
    /\ namespacePhase \in {"absent", "Active"}
    /\ dataSourceCRD \in BOOLEAN
    /\ IF namespacePhase = "absent"
       THEN /\ operatorGroup = NoObject
            /\ subscription = NoObject
            /\ installPlans = << >>
            /\ grafana = NoObject
       ELSE /\ operatorGroup \in {NoObject} \cup
                  {Stored([NewOperatorGroup EXCEPT !.Spec = sp]) : sp \in OperatorGroupSpecs}
            /\ subscription \in {NoObject} \cup AnySubscription
            /\ installPlans \in AnyInstallPlans
            /\ grafana \in {NoObject} \cup
                  {Stored([newGrafana EXCEPT !.Spec = sp]) : sp \in GrafanaSpecs}
    /\ csvs = IF subscription = NoObject THEN {}
              ELSE {subscription.Status.InstalledCSV} \ {""}
    /\ grafanaWatchEstablished \in BOOLEAN
    /\ grafanaWatches = IF grafanaWatchEstablished THEN 1 ELSE 0
    /\ pc = "idle"
    /\ ran = << >>
    /\ results = << >>
    /\ calls = << >>
    /\ ret = result(ZeroReconcileResult)
    /\ converge = [k \in ConvergeSteps |-> << >>]
    /\ NoPlugin

\* no call of the running invocation failed, and no other actor wrote
\* between a read and a write of it
Healthy ==
    \A i \in 1..Len(calls) : calls[i].err \notin {Internal, "AlreadyExists", "Conflict"}

LiveStep == Step /\ Healthy'

Restart == pc = "panicked" /\ RegisterWithManager

\* OLM creates an install plan for grafanaCSV when there is none
ProvideInstallPlan ==
    /\ \A i \in 1..Len(installPlans) : ~IsEligible(installPlans[i])
    /\ ExtAddInstallPlan
    /\ IsEligible([installPlans'[Len(installPlans')] EXCEPT
                     !.Status.BundleLookups = <<"bundle">>])

ServeDataSources == ~dataSourceCRD /\ ExtDataSourceCRD

LiveNext ==
    \/ ReconcileBegin
    \/ LiveStep
    \/ ReconcileEnd
    \/ Restart
    \/ ProvideInstallPlan
    \/ ExtInitInstallPlan
    \/ ServeDataSources

LiveSpec ==
    /\ LiveInit
    /\ [][LiveNext]_vars
    /\ WF_vars(ReconcileBegin)
    /\ WF_vars(LiveStep)
    /\ WF_vars(ReconcileEnd)
    /\ WF_vars(Restart)
    /\ SF_vars(ProvideInstallPlan)
    /\ SF_vars(ExtInitInstallPlan)
    /\ SF_vars(ServeDataSources)

(***************************************************************************)
(*        The ui-plugin package: computeConfigMapHash, newDeployment       *)
(*                                                                         *)
(* A Go string is its sequence of bytes.  ConfigMap.Data is a Go map: a    *)
(* function from keys to values, ranged over in an order that changes from *)
(* one run to the next.                                                    *)
(***************************************************************************)
annotationPrefix == "observability.openshift.io/ui-plugin-"

hashSeparator == <<10>>

\* entries of a ConfigMap
MaxKeys == 2

\* the keys of the ConfigMaps: "a", "ab", "b"
KeySet == {<<97>>, <<97, 98>>, <<98>>}

\* "ndtrw" and "pckxa"
ValueNdtrw == <<110, 100, 116, 114, 119>>
ValuePckxa == <<112, 99, 107, 120, 97>>

\* "1\nb\n2": a value of several lines
ValueLines == <<49, 10, 98, 10, 50>>

\* the values of the ConfigMaps: "", "1", "2", "21", "22", and the three above
Values ==
    {<< >>, <<49>>, <<50>>, <<50, 49>>, <<50, 50>>, ValueNdtrw, ValuePckxa, ValueLines}

\* the Data maps a ConfigMap can hold
DataMaps == UNION {[K -> Values] : K \in {S \in SUBSET KeySet : Cardinality(S) <= MaxKeys}}

\* the orders in which `for k := range cm.Data` can give the keys
RangeOrders(Data) ==
    {o \in [1..Cardinality(DOMAIN Data) -> DOMAIN Data] :
        \A i, j \in DOMAIN o : o[i] = o[j] => i = j}

(***************************************************************************)
(* sort.Strings: ascending in the order of Go's < on strings, which        *)
(* compares byte by byte.                                                  *)
(***************************************************************************)
RECURSIVE Less(_, _)
Less(a, b) ==
    IF Len(b) = 0 THEN FALSE
    ELSE IF Len(a) = 0 THEN TRUE
    ELSE IF Head(a) # Head(b) THEN Head(a) < Head(b)
    ELSE Less(Tail(a), Tail(b))

RECURSIVE InsertSorted(_, _)
InsertSorted(sorted, k) ==
    IF Len(sorted) = 0 THEN <<k>>
    ELSE IF Less(k, Head(sorted)) THEN <<k>> \o sorted
    ELSE <<Head(sorted)>> \o InsertSorted(Tail(sorted), k)

\* a slip: the keys left in the order the range gave them
SortStrings_Unsorted(keys) == keys

RECURSIVE SortStrings(_)
SortStrings(keys) ==
    IF Len(keys) = 0 THEN << >>
    ELSE InsertSorted(SortStrings(Tail(keys)), Head(keys))

(***************************************************************************)
(* hash/fnv New32a: the 32-bit FNV-1a hash.  The 32-bit word is held as    *)
(* its two 16-bit halves, and the product modulo 2^32 is computed half by  *)
(* half, so that no intermediate value leaves the range of the integers.   *)
(***************************************************************************)
Half == 65536

\* 2166136261 = 33052 * 65536 + 40389
offset32 == [hi |-> 33052, lo |-> 40389]

prime32 == 16777619

New32a == offset32

RECURSIVE BitXor(_, _)
BitXor(a, b) ==
    IF a = 0 THEN b
    ELSE IF b = 0 THEN a
    ELSE 2 * BitXor(a \div 2, b \div 2) + (((a % 2) + (b % 2)) % 2)

\* hash ^= sum32a(c)
Xor32(h, c) == [hi |-> h.hi, lo |-> (h.lo \div 256) * 256 + BitXor(h.lo % 256, c)]

\* hash *= prime32, modulo 2^32
Mul32(h) ==
    LET low == h.lo * (prime32 % Half)
        high == h.hi * (prime32 % Half) + h.lo * (prime32 \div Half) + (low \div Half)
    IN [hi |-> high % Half, lo |-> low % Half]

\* the values of a uint32, as halves
Uint32 == [hi : 0..(Half - 1), lo : 0..(Half - 1)]

\* (*sum32a).Write: for _, c := range data { hash ^= sum32a(c); hash *= prime32 }
RECURSIVE Write(_, _)
Write(h, p) ==
    IF Len(p) = 0 THEN h
    ELSE LET hash == Mul32(Xor32(h, Head(p)))
         IN CASE hash \in Uint32 -> Write(hash, Tail(p))

\* (*sum32a).Sum(nil): the four bytes of the word, most significant first
Sum(h) == <<h.hi \div 256, h.hi % 256, h.lo \div 256, h.lo % 256>>

HexDigits ==
    <<"0", "1", "2", "3", "4", "5", "6", "7", "8", "9", "a", "b", "c", "d", "e", "f">>

\* fmt.Sprintf("%x", bytes): two lower-case hexadecimal digits for each byte
RECURSIVE Sprintf_x(_)
Sprintf_x(bytes) ==
    IF Len(bytes) = 0 THEN ""
    ELSE HexDigits[(Head(bytes) \div 16) + 1] \o HexDigits[(Head(bytes) % 16) + 1]
         \o Sprintf_x(Tail(bytes))

\* a slip: an entry hashed without its value
WriteEntry_KeyOnly(h, k, v) == Write(Write(h, k), hashSeparator)

\* the body of the loop over the sorted keys
WriteEntry(h, k, v) ==
    Write(Write(Write(Write(h, k), hashSeparator), v), hashSeparator)

RECURSIVE WriteEntries(_, _, _)
WriteEntries(h, Data, keys) ==
    IF Len(keys) = 0 THEN h
    ELSE WriteEntries(WriteEntry(h, Head(keys), Data[Head(keys)]), Data, Tail(keys))

\* the bytes the loop over the sorted keys writes to h, one Write after the
\* other
RECURSIVE WrittenBytes(_, _)
WrittenBytes(Data, keys) ==
    IF Len(keys) = 0 THEN << >>
    ELSE Head(keys) \o hashSeparator \o Data[Head(keys)] \o hashSeparator
         \o WrittenBytes(Data, Tail(keys))

\* computeConfigMapHash(cm), when the range over cm.Data gives the keys in
\* the order order
computeConfigMapHash(cm, order) ==
    LET keys == SortStrings(order)
        h == WriteEntries(New32a, cm.Data, keys)
    IN Sprintf_x(Sum(h))

\* newDeployment(info, namespace, config): the pod template's annotations and
\* the names of the volumes
newDeployment(cm, order) ==
    [Annotations |->
        IF cm # NoObject
        THEN (annotationPrefix \o "config-hash") :> computeConfigMapHash(cm, order)
        ELSE [a \in {} |-> ""],
     Volumes |->
        IF cm # NoObject THEN <<"serving-cert", "plugin-config">>
        ELSE <<"serving-cert">>]

(***************************************************************************)
(* The plugin reconciler builds the Deployment anew on every run; between  *)
(* runs the plugin's configuration may change in one value.                *)
(***************************************************************************)
PluginInit ==
    /\ NewReconciler
    /\ configMap \in {NoObject} \cup {[Data |-> d] : d \in DataMaps}
    /\ deployment = NoObject
    /\ ranged = << >>
    /\ reranged = FALSE
    /\ digests = {}
    /\ previous = NoObject

BuildDeployment ==
    /\ \E order \in (IF configMap = NoObject THEN {<< >>}
                     ELSE RangeOrders(configMap.Data)) :
         /\ deployment' = newDeployment(configMap, order)
         /\ ranged' = order
         /\ reranged' = (reranged \/ (deployment # NoObject /\ order # ranged))
         /\ digests' = digests \cup
               {deployment'.Annotations[a] : a \in DOMAIN deployment'.Annotations}
    /\ UNCHANGED <<configMap, previous>>
    /\ UNCHANGED <<store, process, invocation, converge>>

\* the value of one key changes, once the Deployment has been built
SetValue ==
    /\ configMap # NoObject
    /\ deployment # NoObject
    /\ previous = NoObject
    /\ \E k \in DOMAIN configMap.Data, v \in Values :
         /\ v # configMap.Data[k]
         /\ configMap' = [configMap EXCEPT !.Data[k] = v]
         /\ previous' = [key |-> k, value |-> configMap.Data[k], digests |-> digests]
    /\ deployment' = NoObject
    /\ ranged' = << >>
    /\ reranged' = FALSE
    /\ digests' = {}
    /\ UNCHANGED <<store, process, invocation, converge>>

PluginNext == BuildDeployment \/ SetValue

PluginSpec == PluginInit /\ [][PluginNext]_vars

(***************************************************************************)
(*                              Properties                                 *)
(***************************************************************************)
Steps == {reconcilers[i] : i \in 1..Len(reconcilers)}

\* the calls of the running invocation that satisfy P
CallsOf(op, kind) == {i \in 1..Len(calls) : calls[i].op = op /\ calls[i].kind = kind}

InNamespaceKinds == {"OperatorGroup", "Subscription", "Grafana"}

(***************************************************************************)
(* C1: in every invocation the steps run in the order of the list, each at *)
(* most once; a step runs only while every earlier result has stop false;  *)
(* the first result with stop true ends the invocation and Reconcile       *)
(* returns its (Result, err) unchanged; when all six return stop false,    *)
(* Reconcile returns the zero Result and a nil error.                      *)
(***************************************************************************)
C1_PipelineOrder ==
    /\ Len(ran) <= Len(reconcilers)
    /\ \A i \in 1..Len(ran) : ran[i] = reconcilers[i]
    /\ \A i \in 1..(Len(results) - 1) : ~results[i].stop
    /\ pc \in Steps =>
         /\ pc = reconcilers[Len(ran) + 1]
         /\ Len(results) = Len(ran)
         /\ \A i \in 1..Len(results) : ~results[i].stop
    /\ pc = "returned" =>
         /\ Len(ran) >= 1
         /\ Len(results) = Len(ran)
         /\ IF results[Len(results)].stop
            THEN ret = [Result |-> results[Len(results)].Result,
                        err |-> results[Len(results)].err]
            ELSE /\ Len(ran) = Len(reconcilers)
                 /\ ret = [Result |-> ZeroResult, err |-> Nil]

\* an invocation that ran five steps and returned the fifth's requeue
C1_Witness ==
    /\ pc = "returned"
    /\ Len(ran) = 5
    /\ results[5].stop
    /\ ret.Result.RequeueAfter = ProbeRequeueSeconds

C3_ConvergeIdempotent ==
    \A k \in {"reconcileOperatorGroup", "reconcileGrafana"} :
       /\ Len(converge[k]) >= 1 => converge[k][1] = 1
       /\ Len(converge[k]) = 2 => converge[k][2] = 0

\* the Grafana step ran twice in succession: one write, then none
C3_Witness ==
    /\ converge["reconcileGrafana"] = <<1, 0>>
    /\ grafana # NoObject

(***************************************************************************)
(* C4: an Update rejected with a version conflict is the step's last call; *)
(* the step's result has a nil error, stop true and a requeue delay of two *)
(* seconds, and Reconcile returns that delay with a nil error.             *)
(***************************************************************************)
C4_ConflictRequeues ==
    \A i \in 1..Len(calls) :
       (calls[i].op = "Update" /\ IsConflict(calls[i].err)) =>
          /\ i = Len(calls)
          /\ Len(results) = Len(ran)
          /\ results[Len(results)].err = Nil
          /\ results[Len(results)].stop
          /\ results[Len(results)].Result =
               [Requeue |-> FALSE, RequeueAfter |-> ConflictRequeueSeconds]
          /\ pc = "returned"
          /\ ret = [Result |-> [Requeue |-> FALSE,
                                RequeueAfter |-> ConflictRequeueSeconds],
                    err |-> Nil]

\* a conflict on the Update of the Grafana object
C4_Witness ==
    \E i \in CallsOf("Update", "Grafana") : IsConflict(calls[i].err)

(***************************************************************************)
(* The install plans as the claims speak of them.  A plan targets          *)
(* grafanaCSV when the version is in its ClusterServiceVersionNames, at    *)
(* any position; it is eligible when it also has bundle lookups.           *)
(***************************************************************************)
Targets(plan) ==
    \E i \in 1..Len(plan.Spec.ClusterServiceVersionNames) :
       plan.Spec.ClusterServiceVersionNames[i] = grafanaCSV

Initialised(plan) == Len(plan.Status.BundleLookups) # 0

\* the index of the first eligible plan of items, 0 when there is none
FirstEligible(items) ==
    IF \E i \in 1..Len(items) : IsEligible(items[i])
    THEN CHOOSE i \in 1..Len(items) :
            /\ IsEligible(items[i])
            /\ \A j \in 1..(i - 1) : ~IsEligible(items[j])
    ELSE 0

\* approveInstallPlan has been called in the running invocation and its List
\* succeeded
ListedPlans ==
    /\ Len(ran) >= 4
    /\ \E i \in CallsOf("List", "InstallPlan") : calls[i].err = Nil

\* the plans that List returned
Items == calls[CHOOSE i \in CallsOf("List", "InstallPlan") : TRUE].obj.Items

\* the writes approveInstallPlan issued
PlanWrites ==
    {i \in 1..Len(calls) : calls[i].kind = "InstallPlan" /\ IsWrite(calls[i])}

\* approveInstallPlan issued exactly one write: the Update of plan i, changed
\* only in Approved
OnlyApproves(i) ==
    /\ Cardinality(PlanWrites) = 1
    /\ \A u \in PlanWrites :
         /\ calls[u].op = "Update"
         /\ calls[u].obj = [index |-> i,
                            plan |-> [Items[i] EXCEPT !.Spec.Approved = TRUE]]

(***************************************************************************)
(* C5: when exactly one listed plan targets grafanaCSV, and that plan has  *)
(* bundle lookups and is not approved, approveInstallPlan issues exactly   *)
(* one Update, of that plan, changing only Approved to true, and writes no *)
(* other plan.                                                             *)
(***************************************************************************)
C5_ApprovesTheOnePlan ==
    ListedPlans =>
       \A i \in 1..Len(Items) :
          ( /\ Targets(Items[i])
            /\ \A j \in 1..Len(Items) : Targets(Items[j]) => j = i
            /\ Initialised(Items[i])
            /\ ~Items[i].Spec.Approved )
          => OnlyApproves(i)

(***************************************************************************)
(* C6: when the list is empty or holds no plan that targets grafanaCSV and *)
(* has bundle lookups, approveInstallPlan issues no write and returns      *)
(* end(): stop, nil error, no requeue; the invocation ends there.          *)
(***************************************************************************)
C6_NoEligiblePlanWaits ==
    (ListedPlans /\ FirstEligible(Items) = 0) =>
       /\ PlanWrites = {}
       /\ pc = "returned"
       /\ Len(ran) = 4
       /\ Len(results) = 4
       /\ results[4] = end
       /\ ret = [Result |-> ZeroResult, err |-> Nil]

(***************************************************************************)
(* C7 as stated: after a successful Update of the plan it approves,        *)
(* approveInstallPlan returns stop true with no error and the invocation   *)
(* ends without setGrafanaWatch or reconcileGrafana.                       *)
(***************************************************************************)
ApprovalSucceeded ==
    \E u \in CallsOf("Update", "InstallPlan") : calls[u].err = Nil

C7_ApprovalHalts ==
    ApprovalSucceeded =>
       /\ results[4].stop
       /\ results[4].err = Nil
       /\ Len(ran) = 4
       /\ pc = "returned"

(***************************************************************************)
(* C7 amended: after a successful Update of the plan it approves,          *)
(* approveInstallPlan returns continue (stop false, nil error, no          *)
(* requeue) and the pipeline goes on to setGrafanaWatch in the same        *)
(* invocation.                                                             *)
(***************************************************************************)
C7_ApprovalContinues ==
    ApprovalSucceeded =>
       /\ results[4] = next
       /\ Len(ran) = 4 => pc = "setGrafanaWatch"
       /\ Len(ran) >= 5 => ran[5] = "setGrafanaWatch"

\* the plan was approved and setGrafanaWatch ran in the same invocation
C7_Witness ==
    /\ ApprovalSucceeded
    /\ Len(ran) >= 5
    /\ ran[5] = "setGrafanaWatch"

(***************************************************************************)
(* C8: when the first listed plan that targets grafanaCSV and has bundle   *)
(* lookups is already approved, approveInstallPlan issues no write and     *)
(* returns continue, so setGrafanaWatch runs next in the same invocation.  *)
(***************************************************************************)
C8_ApprovedPlanContinues ==
    (ListedPlans /\ FirstEligible(Items) # 0) =>
       (Items[FirstEligible(Items)].Spec.Approved =>
          /\ PlanWrites = {}
          /\ Len(results) >= 4
          /\ results[4] = next
          /\ Len(ran) = 4 => pc = "setGrafanaWatch")

(***************************************************************************)
(* C9: approveInstallPlan acts on the first plan whose                     *)
(* ClusterServiceVersionNames contains grafanaCSV at any position and      *)
(* whose bundle lookups are non-empty, ignores every other plan (an empty  *)
(* name list included), and returns a result for every list.               *)
(***************************************************************************)
C9_EligibleByMembership ==
    (ListedPlans /\ Len(Items) > 0) =>
       /\ pc # "panicked"
       /\ Len(results) >= 4
       /\ IF FirstEligible(Items) = 0
          THEN PlanWrites = {} /\ results[4] = end
          ELSE IF Items[FirstEligible(Items)].Spec.Approved
          THEN PlanWrites = {} /\ results[4] = next
          ELSE OnlyApproves(FirstEligible(Items))

SubscriptionWrites ==
    {i \in 1..Len(calls) :
        calls[i].kind \in {"Subscription", "ClusterServiceVersion"} /\ IsWrite(calls[i])}

C11_ReplacesStaleSubscription ==
    /\ \A i \in CallsOf("Delete", "Subscription") :
         /\ calls[i].obj.Spec.StartingCSV # grafanaCSV
         /\ calls[i].err = "nil" =>
              /\ Len(calls) >= i + 1
              /\ calls[i + 1].op = "Delete"
              /\ calls[i + 1].kind = "ClusterServiceVersion"
              /\ calls[i + 1].obj.Name = calls[i].obj.Status.InstalledCSV
              /\ calls[i + 1].err = "nil" =>
                   /\ Len(calls) >= i + 2
                   /\ calls[i + 2].op = "Create"
                   /\ calls[i + 2].kind = "Subscription"
                   /\ calls[i + 2].obj.Spec.StartingCSV = grafanaCSV
    /\ ( /\ \E i \in CallsOf("Get", "Subscription") : calls[i].err = "nil"
         /\ subscription # NoObject
         /\ subscription.Spec.StartingCSV = grafanaCSV )
       => /\ SubscriptionWrites = {}
          /\ Len(results) >= 3
          /\ results[3] = [Result |-> ZeroResult, err |-> "nil", stop |-> FALSE]

(***************************************************************************)
(* C12: a run of reconcileNamespace that finds no namespace issues exactly *)
(* one Create and no other write, and when the store accepts the Create    *)
(* the invocation ends there with the zero Result and a nil error.  A run  *)
(* that finds the namespace issues no write; the pipeline goes on to       *)
(* reconcileOperatorGroup exactly when the phase is Active, and otherwise  *)
(* the invocation ends with the zero Result and a nil error.  In           *)
(* particular the run that follows an accepted Create issues no write.     *)
(***************************************************************************)
NamespaceWrites ==
    {i \in 1..Len(calls) : calls[i].kind = "Namespace" /\ IsWrite(calls[i])}

NamespaceGot(err) == \E i \in CallsOf("Get", "Namespace") : calls[i].err = err

HaltedAfterNamespace ==
    /\ pc = "returned"
    /\ ran = <<"reconcileNamespace">>
    /\ ret = [Result |-> [Requeue |-> FALSE, RequeueAfter |-> 0], err |-> "nil"]

WentOnToOperatorGroup ==
    \/ pc = "reconcileOperatorGroup" /\ ran = <<"reconcileNamespace">>
    \/ Len(ran) >= 2 /\ ran[2] = "reconcileOperatorGroup"

Probes == CallsOf("List", "GrafanaDataSource")

WatchCalls == CallsOf("Watch", "Grafana")

\* setGrafanaWatch has returned in the running invocation
GateRan == Len(results) >= 5

(***************************************************************************)
(* C13: a run of setGrafanaWatch that starts with grafanaWatchEstablished  *)
(* true (the flag is true and this invocation registered no watch) issues  *)
(* no probe and no watch registration and returns continue; a reconciler   *)
(* registers the Grafana watch successfully at most once.                  *)
(***************************************************************************)
C13_WatchRegisteredOnce ==
    /\ ( /\ GateRan
         /\ grafanaWatchEstablished
         /\ \A i \in WatchCalls : calls[i].err # "nil" )
       => /\ Probes = {}
          /\ WatchCalls = {}
          /\ results[5] = [Result |-> [Requeue |-> FALSE, RequeueAfter |-> 0],
                           err |-> "nil", stop |-> FALSE]
    /\ grafanaWatches <= 1

\* the gate ran with the flag already true and went on to reconcileGrafana
C13_Witness ==
    /\ GateRan
    /\ grafanaWatchEstablished
    /\ grafanaWatches = 1
    /\ Probes = {}
    /\ pc = "reconcileGrafana"

(***************************************************************************)
(* C14: when the capability probe fails, setGrafanaWatch returns stop with *)
(* a nil error and a requeue delay of ten seconds, registers no watch and  *)
(* leaves grafanaWatchEstablished false; the invocation ends there, so     *)
(* reconcileGrafana does not run, and Reconcile returns that delay.        *)
(***************************************************************************)
ProbeFailed == \E i \in Probes : calls[i].err # "nil"

C14_ProbeFailureRequeues ==
    ProbeFailed =>
       /\ Len(results) = 5
       /\ results[5] = [Result |-> [Requeue |-> FALSE, RequeueAfter |-> 10],
                        err |-> "nil", stop |-> TRUE]
       /\ WatchCalls = {}
       /\ ~grafanaWatchEstablished
       /\ Len(ran) = 5
       /\ pc = "returned"
       /\ \A i \in 1..Len(calls) : calls[i].kind # "Grafana"
       /\ ret = [Result |-> [Requeue |-> FALSE, RequeueAfter |-> 10], err |-> "nil"]

\* the probe failed although the GrafanaDataSource kind is served
C14_Witness ==
    /\ ProbeFailed
    /\ dataSourceCRD
    /\ pc = "returned"

(***************************************************************************)
(* C15: grafanaWatchEstablished is true only when the reconciler has       *)
(* registered the watch; a run of the gate with the flag false issues the  *)
(* probe; a failed watch registration makes the step return stop with that *)
(* error and leaves the flag false.  The flag changes only in              *)
(* setGrafanaWatch, from false to true together with a registered watch;   *)
(* it is false again only in the reconciler a restarted process builds.    *)
(***************************************************************************)
FlagOnlyAfterWatch ==
    /\ grafanaWatchEstablished => grafanaWatches >= 1
    /\ (GateRan /\ ~grafanaWatchEstablished) => Probes # {}
    /\ \A i \in WatchCalls :
         calls[i].err # "nil" =>
            /\ ~grafanaWatchEstablished
            /\ Len(results) = 5
            /\ results[5] = [Result |-> [Requeue |-> FALSE, RequeueAfter |-> 0],
                             err |-> calls[i].err, stop |-> TRUE]
            /\ pc = "returned"
            /\ ret = [Result |-> [Requeue |-> FALSE, RequeueAfter |-> 0],
                      err |-> calls[i].err]

FlagChange ==
    grafanaWatchEstablished' # grafanaWatchEstablished =>
       \/ /\ pc = "setGrafanaWatch"
          /\ grafanaWatchEstablished'
          /\ grafanaWatches' = grafanaWatches + 1
          /\ calls'[Len(calls')].op = "Watch"
          /\ calls'[Len(calls')].err = "nil"
       \/ /\ pc \in {"idle", "panicked"}
          /\ pc' = "idle"
          /\ grafanaWatches' = 0

C15_FlagSetOnlyByWatch == []FlagOnlyAfterWatch /\ [][FlagChange]_vars

\* the flag was set in the running invocation, by a registered watch
C15_Witness ==
    /\ grafanaWatchEstablished
    /\ \E i \in WatchCalls : calls[i].err = "nil"
    /\ pc = "reconcileGrafana"

(***************************************************************************)
(* C16: the Result of every step, and the Result Reconcile returns, has    *)
(* Requeue false and a RequeueAfter of 0, 2 or 10 seconds; a delay of 2    *)
(* seconds is returned only after an Update met a version conflict, and a  *)
(* delay of 10 seconds only after the capability probe failed.             *)
(***************************************************************************)
BoundedRequeue(res) ==
    /\ res.Requeue = FALSE
    /\ res.RequeueAfter \in {0, 2, 10}
    /\ res.RequeueAfter = 2 =>
         /\ Len(calls) >= 1
         /\ calls[Len(calls)].op = "Update"
         /\ calls[Len(calls)].err = "Conflict"
    /\ res.RequeueAfter = 10 =>
         /\ Len(calls) >= 1
         /\ calls[Len(calls)].op = "List"
         /\ calls[Len(calls)].kind = "GrafanaDataSource"
         /\ calls[Len(calls)].err # "nil"

C16_NoImmediateRequeue ==
    /\ BoundedRequeue(ret.Result)
    /\ \A i \in 1..Len(results) : BoundedRequeue(results[i].Result)

\* Reconcile returned the two-second delay of a version conflict
C16_Witness ==
    /\ pc = "returned"
    /\ ret.Result.RequeueAfter = 2
    /\ ret.err = "nil"

(***************************************************************************)
(* C17: a store call that fails with an error outside the expected classes *)
(* (NotFound on a Get, AlreadyExists on a Create, Conflict on an Update,   *)
(* any error of the capability probe) is the last call of the invocation:  *)
(* its step returns stop with that error and the zero Result, and          *)
(* Reconcile returns that error and the zero Result.                       *)
(***************************************************************************)
Expected(call) ==
    \/ call.err = "nil"
    \/ call.op = "Get" /\ call.err = "NotFound"
    \/ call.op = "Create" /\ call.err = "AlreadyExists"
    \/ call.op = "Update" /\ call.err = "Conflict"
    \/ call.op = "List" /\ call.kind = "GrafanaDataSource"

C17_UnexpectedErrorHalts ==
    \A i \in 1..Len(calls) :
       ~Expected(calls[i]) =>
          /\ i = Len(calls)
          /\ pc = "returned"
          /\ Len(results) = Len(ran)
          /\ results[Len(results)] =
               [Result |-> [Requeue |-> FALSE, RequeueAfter |-> 0],
                err |-> calls[i].err, stop |-> TRUE]
          /\ ret = [Result |-> [Requeue |-> FALSE, RequeueAfter |-> 0],
                    err |-> calls[i].err]

\* the Delete of the installed ClusterServiceVersion failed
C17_Witness ==
    /\ pc = "returned"
    /\ \E i \in CallsOf("Delete", "ClusterServiceVersion") :
          calls[i].err = "InternalError"

(***************************************************************************)
(* C18: when the Create of the namespace, the operator group, the          *)
(* subscription or the Grafana object fails with AlreadyExists, the step   *)
(* returns continue (nil error, zero Result), that Create is the only      *)
(* write of the invocation to that kind, the pipeline goes on to the next  *)
(* step, and an invocation that ends on it returns a nil error.            *)
(***************************************************************************)
StepOfKind(kind) ==
    CASE kind = "Namespace" -> 1
      [] kind = "OperatorGroup" -> 2
      [] kind = "Subscription" -> 3
      [] kind = "Grafana" -> 6

C18_AlreadyExistsIsSuccess ==
    \A i \in 1..Len(calls) :
       (calls[i].op = "Create" /\ calls[i].err = "AlreadyExists") =>
          LET k == StepOfKind(calls[i].kind)
          IN /\ Len(results) >= k
             /\ results[k] = [Result |-> [Requeue |-> FALSE, RequeueAfter |-> 0],
                              err |-> "nil", stop |-> FALSE]
             /\ Cardinality({j \in 1..Len(calls) :
                                calls[j].kind = calls[i].kind /\ IsWrite(calls[j])}) = 1
             /\ k < Len(reconcilers) =>
                  \/ Len(ran) = k /\ pc = reconcilers[k + 1]
                  \/ Len(ran) > k /\ ran[k + 1] = reconcilers[k + 1]
             /\ (i = Len(calls) /\ pc = "returned") =>
                  ret = [Result |-> [Requeue |-> FALSE, RequeueAfter |-> 0],
                         err |-> "nil"]

\* the Create of the Grafana object met AlreadyExists and Reconcile returned
C18_Witness ==
    /\ pc = "returned"
    /\ ret.err = "nil"
    /\ \E i \in CallsOf("Create", "Grafana") : calls[i].err = "AlreadyExists"

(***************************************************************************)
(* The config-hash annotation of the pod template.                         *)
(***************************************************************************)
ConfigHash == "observability.openshift.io/ui-plugin-config-hash"

\* the Deployment has been built from the ConfigMap
Built == configMap # NoObject /\ deployment # NoObject

(***************************************************************************)
(* C19: every build from one ConfigMap carries the same digest, in         *)
(* whatever order the range over Data gave the keys: the digest is a       *)
(* function of the key/value pairs alone.                                  *)
(***************************************************************************)
C19_DigestIgnoresOrder ==
    Built =>
       /\ DOMAIN deployment.Annotations = {ConfigHash}
       /\ digests = {deployment.Annotations[ConfigHash]}

\* a ConfigMap of two keys or more was hashed in two different key orders
C19_Witness ==
    /\ Built
    /\ reranged
    /\ Cardinality(DOMAIN configMap.Data) >= 2
    /\ Cardinality(digests) = 1

(***************************************************************************)
(* C20 as stated: when the value of exactly one key of a ConfigMap         *)
(* changes, the digest, and with it the config-hash annotation of the      *)
(* Deployment, differs from every digest built before the change.          *)
(***************************************************************************)
C20_ValueChangeChangesDigest ==
    (Built /\ previous # NoObject) =>
       /\ ConfigHash \in DOMAIN deployment.Annotations
       /\ deployment.Annotations[ConfigHash] \notin previous.digests

(***************************************************************************)
(* C20 amended: when the value of exactly one key changes in exactly one   *)
(* byte (the length stays), the digest and the config-hash annotation      *)
(* differ from every digest built before the change.                       *)
(***************************************************************************)
OneByteApart(v, w) ==
    /\ Len(v) = Len(w)
    /\ Cardinality({i \in 1..Len(v) : v[i] # w[i]}) = 1

C20_OneByteChangeChangesDigest ==
    ( /\ Built
      /\ previous # NoObject
      /\ OneByteApart(previous.value, configMap.Data[previous.key]) )
    => /\ ConfigHash \in DOMAIN deployment.Annotations
       /\ deployment.Annotations[ConfigHash] \notin previous.digests

\* one byte of the value of one key of a two-key ConfigMap changed, and the
\* Deployment was built before and after
C20_Witness ==
    /\ Built
    /\ previous # NoObject
    /\ OneByteApart(previous.value, configMap.Data[previous.key])
    /\ Len(previous.value) = 2
    /\ Cardinality(DOMAIN configMap.Data) = 2
    /\ previous.digests # {}

(***************************************************************************)
(* C21: every reconcileResult that carries an error has stop true: the     *)
(* result of every step of every invocation, and what each constructor     *)
(* (end, next, requeue, reconcileError, creationResult, updationResult)    *)
(* returns for every error and every delay.                                *)
(***************************************************************************)
Errors ==
    {"nil", "NotFound", "AlreadyExists", "Conflict", "InternalError", "BadRequest",
     "Forbidden", "NoKindMatch"}

ErrorStops(r) == r.err # "nil" => r.stop = TRUE

C21_ErrorImpliesStop ==
    /\ \A i \in 1..Len(results) : ErrorStops(results[i])
    /\ ErrorStops(end)
    /\ ErrorStops(next)
    /\ \A e \in Errors :
         /\ ErrorStops(reconcileError(e))
         /\ ErrorStops(creationResult(e))
         /\ ErrorStops(updationResult(e))
         /\ \A d \in {0, 2, 10} : ErrorStops(requeue(d, e))

\* the last step of an invocation returned an error
C21_Witness ==
    /\ pc = "returned"
    /\ Len(results) = 6
    /\ results[6].err = "InternalError"
    /\ results[6].stop

(***************************************************************************)
(* C22: the reconciler flips the approval of an install plan at most once. *)
(* In every invocation approveInstallPlan issues at most one write, an     *)
(* Update of a plan it read as not approved, changed only in Approved, and *)
(* never an Update of a plan it read as approved.  An Update the store     *)
(* accepts finds the plan unapproved in the store and leaves it approved,  *)
(* with every other plan as it was; and while a plan stays in the store,   *)
(* no step of the reconciler or of another actor takes its approval back.  *)
(***************************************************************************)
PlanUpdates == CallsOf("Update", "InstallPlan")

ApprovesOnlyUnapproved ==
    /\ Cardinality(PlanWrites) <= 1
    /\ PlanWrites \subseteq PlanUpdates
    /\ \A u \in PlanUpdates :
         /\ ListedPlans
         /\ calls[u].obj.index \in 1..Len(Items)
         /\ Items[calls[u].obj.index].Spec.Approved = FALSE
         /\ calls[u].obj.plan.Spec.Approved = TRUE
         /\ calls[u].obj.plan =
              [Items[calls[u].obj.index] EXCEPT !.Spec.Approved = TRUE]

\* the step taken is approveInstallPlan and the store accepted its Update
AcceptedApproval ==
    /\ pc = "approveInstallPlan"
    /\ Len(calls') >= 1
    /\ calls'[Len(calls')].op = "Update"
    /\ calls'[Len(calls')].err = "nil"

ApprovalFlip ==
    /\ Len(installPlans') = Len(installPlans) =>
          \A i \in 1..Len(installPlans) :
             installPlans[i].Spec.Approved => installPlans'[i].Spec.Approved
    /\ pc \in Steps =>
          /\ Len(installPlans') = Len(installPlans)
          /\ \A i \in 1..Len(installPlans) :
                \/ installPlans'[i] = installPlans[i]
                \/ /\ pc = "approveInstallPlan"
                   /\ installPlans[i].Spec.Approved = FALSE
                   /\ installPlans'[i] = [installPlans[i] EXCEPT !.Spec.Approved = TRUE]
    /\ AcceptedApproval =>
          LET i == calls'[Len(calls')].obj.index
          IN /\ installPlans[i].Spec.Approved = FALSE
             /\ installPlans'[i].Spec.Approved = TRUE
             /\ \A j \in 1..Len(installPlans) : j # i => installPlans'[j] = installPlans[j]

C22_ApprovesAtMostOnce == []ApprovesOnlyUnapproved /\ [][ApprovalFlip]_vars

\* approveInstallPlan read an approved plan for grafanaCSV, wrote nothing and
\* went on
C22_Witness ==
    /\ ListedPlans
    /\ Len(Items) >= 1
    /\ Items[1].Spec.Approved
    /\ Items[1].Spec.ClusterServiceVersionNames = <<grafanaCSV>>
    /\ PlanWrites = {}
    /\ pc = "setGrafanaWatch"

(***************************************************************************)
(* C24: in every invocation the namespace, the operator group and the      *)
(* Grafana object each receive at most one write and no Delete, and the    *)
(* only write the namespace ever receives is a Create.                     *)
(***************************************************************************)
WritesTo(kind) == {i \in 1..Len(calls) : calls[i].kind = kind /\ IsWrite(calls[i])}

C24_OneWriteNoDelete ==
    /\ \A kind \in {"Namespace", "OperatorGroup", "Grafana"} :
         /\ Cardinality(WritesTo(kind)) <= 1
         /\ \A i \in WritesTo(kind) : calls[i].op \in {"Create", "Update"}
         /\ CallsOf("Delete", kind) = {}
    /\ \A i \in WritesTo("Namespace") : calls[i].op = "Create"
    /\ CallsOf("Update", "Namespace") = {}

\* one invocation updated the operator group and created the Grafana object
C24_Witness ==
    /\ \E i \in CallsOf("Update", "OperatorGroup") : calls[i].err = "nil"
    /\ \E i \in CallsOf("Create", "Grafana") : calls[i].err = "nil"
    /\ Cardinality(WritesTo("OperatorGroup")) = 1
    /\ Cardinality(WritesTo("Grafana")) = 1
    /\ pc = "returned"

(***************************************************************************)
(* The converged state as the claims speak of it: every managed object is  *)
(* there with its desired spec, an initialised plan that targets           *)
(* grafanaCSV is approved, and the Grafana watch is established.           *)
(***************************************************************************)
Converged ==
    /\ namespacePhase = "Active"
    /\ operatorGroup # NoObject
    /\ operatorGroup.Spec = [TargetNamespaces |-> <<"monitoring-stack-operator">>]
    /\ subscription # NoObject
    /\ subscription.Spec.StartingCSV = grafanaCSV
    /\ \E i \in 1..Len(installPlans) :
          /\ Targets(installPlans[i])
          /\ Initialised(installPlans[i])
          /\ installPlans[i].Spec.Approved
    /\ grafana # NoObject
    /\ grafana.Spec = [Replicas |-> 1]
    /\ grafanaWatchEstablished

\* the calls the step being taken issues
NewCalls == (Len(calls) + 1)..Len(calls')

(***************************************************************************)
(* C25: a step of the pipeline that runs in the converged state, and whose *)
(* reads do not fail, changes neither the store nor the reconciler, issues *)
(* no write and no watch registration, and returns continue, so that the   *)
(* pipeline goes on to the next step; after the sixth step Reconcile       *)
(* returns the zero Result and a nil error.  The store being unchanged,    *)
(* the same holds of every later invocation.                               *)
(***************************************************************************)
QuiescentStep ==
    ( /\ Converged
      /\ pc \in Steps
      /\ \A i \in NewCalls : calls'[i].err = "nil" )
    => /\ store' = store
       /\ process' = process
       /\ \A i \in NewCalls : ~IsWrite(calls'[i]) /\ calls'[i].op # "Watch"
       /\ results' = Append(results, [Result |-> [Requeue |-> FALSE, RequeueAfter |-> 0],
                                      err |-> "nil", stop |-> FALSE])
       /\ ran' = Append(ran, pc)
       /\ IF pc = "reconcileGrafana"
          THEN /\ pc' = "returned"
               /\ Len(ran') = 6
               /\ ret' = [Result |-> [Requeue |-> FALSE, RequeueAfter |-> 0],
                          err |-> "nil"]
          ELSE /\ pc' \in Steps
               /\ pc' = reconcilers[Len(ran') + 1]

C25_ConvergedIsQuiescent == [][QuiescentStep]_vars

(***************************************************************************)
(* C26: a run of reconcileOperatorGroup or reconcileGrafana that reads an  *)
(* object whose Spec differs from the desired Spec issues one write, the   *)
(* Update of the object it read with only Spec replaced by the desired     *)
(* Spec (the resource version and every other field are those read); when  *)
(* the store accepts the Update the stored Spec is the desired one.  A run *)
(* that reads an object whose Spec equals the desired Spec issues no       *)
(* write.  An Update is issued in no other case.                           *)
(***************************************************************************)
NewWrites == {i \in NewCalls : IsWrite(calls'[i])}

\* the step being taken is step, which manages the object cur (after the
\* step: after) of the given kind, with desired Spec spec
OverwritesDrift(step, kind, cur, after, spec) ==
    pc = step =>
       /\ \A i \in NewCalls :
             calls'[i].op = "Update" =>
                /\ calls'[i].kind = kind
                /\ cur # NoObject
                /\ cur.Spec # spec
                /\ calls'[i].obj = [cur EXCEPT !.Spec = spec]
                /\ calls'[i].obj.ResourceVersion = cur.ResourceVersion
                /\ calls'[i].err = "nil" => (after # NoObject /\ after.Spec = spec)
       /\ (cur # NoObject /\ calls'[Len(calls) + 1].err = "nil") =>
             IF cur.Spec = spec
             THEN NewWrites = {} /\ after = cur
             ELSE /\ Cardinality(NewWrites) = 1
                  /\ \A i \in NewWrites : calls'[i].op = "Update"

DriftStep ==
    /\ OverwritesDrift("reconcileOperatorGroup", "OperatorGroup",
                       operatorGroup, operatorGroup',
                       [TargetNamespaces |-> <<"monitoring-stack-operator">>])
    /\ OverwritesDrift("reconcileGrafana", "Grafana", grafana, grafana',
                       [Replicas |-> 1])

C26_UpdateKeepsObserved == [][DriftStep]_vars

\* the store accepted the Update of a Grafana object whose Spec another actor
\* had changed
C26_Witness ==
    /\ \E i \in CallsOf("Update", "Grafana") :
          /\ calls[i].err = "nil"
          /\ calls[i].obj.ResourceVersion = "set"
          /\ grafana = calls[i].obj
    /\ grafana.Spec = [Replicas |-> 1]
    /\ pc = "returned"

(***************************************************************************)
(* C27: the replacement of a stale Subscription stops at the first Delete  *)
(* that fails.  When the Delete of the Subscription fails, no Delete of    *)
(* the ClusterServiceVersion and no Create is issued, the invocation ends  *)
(* with that error and the store still holds the Subscription that was     *)
(* read.  When the Delete of the ClusterServiceVersion fails (NotFound     *)
(* included), no Create is issued, the invocation ends with that error and *)
(* the store holds no Subscription.  A run that finds no Subscription      *)
(* issues one write, the Create of a Subscription whose StartingCSV is     *)
(* grafanaCSV, and when the store accepts it the store holds that          *)
(* Subscription.                                                           *)
(***************************************************************************)
SubscriptionDeletes == CallsOf("Delete", "Subscription")

CSVDeletes == CallsOf("Delete", "ClusterServiceVersion")

SubscriptionCreates == CallsOf("Create", "Subscription")

\* the invocation ended on call i, with the error of that call
EndedOn(i) ==
    /\ i = Len(calls)
    /\ pc = "returned"
    /\ Len(ran) = 3
    /\ ret = [Result |-> [Requeue |-> FALSE, RequeueAfter |-> 0], err |-> calls[i].err]

SubscriptionRestored ==
    (subscription = NoObject \/ subscription.Spec.StartingCSV # grafanaCSV)
       ~> (subscription # NoObject /\ subscription.Spec.StartingCSV = grafanaCSV)

StreamOf(Data) == WrittenBytes(Data, SortStrings(CHOOSE o \in RangeOrders(Data) : TRUE))

C28_EncodingInjective ==
    Built =>
       \A d \in DataMaps :
          d # configMap.Data =>
             StreamOf(d) # WrittenBytes(configMap.Data, SortStrings(ranged))

(***************************************************************************)
(* C23: from any store state, with invocations started again and again,    *)
(* store calls that do not fail, a namespace that stays Active and the     *)
(* GrafanaDataSource kind served in the end: if from some time on the      *)
(* store holds an initialised install plan that targets grafanaCSV, the    *)
(* converged state is eventually reached.                                  *)
(***************************************************************************)
PlanProvided ==
    \E i \in 1..Len(installPlans) :
       Targets(installPlans[i]) /\ Initialised(installPlans[i])

C23_EventuallyConverged == (<>[]PlanProvided) => <>Converged

=============================================================================
